---- MODULE Spec2Model ----
(***************************************************************************)
(* Media-key interception and per-application audio-session control of     *)
(* SoundBoard-Manager: backend.AudioManager (the session directory), the   *)
(* master-volume functions of backend.py, and                              *)
(* media_wheel.MediaWheelController (the key hook and the refresh loop).   *)
(*                                                                         *)
(* Time is counted in ticks of 10 ms.  The controller compares its stored   *)
(* timestamps only with the current time, so each is kept as its distance  *)
(* from now, which the clock moves and which stops counting at the         *)
(* threshold it is compared with:                                          *)
(*   since_delta = now - last_delta_at     (at most EventCooldown)         *)
(*   guard_left  = guard_until - now       (at least 0)                    *)
(*   mute_held   = now - mute_down_at      (at most HoldTicks+1; None when *)
(*                                          mute_down_at is None)          *)
(* A native volume level (a float in [0,1]) is counted in units of         *)
(* 1/(100*LevelScale), so that int(v*100) truncates.  selected_index is    *)
(* 0-based as in the code; sequences are 1-based, so the session at        *)
(* selected_index is sessions[selected_index+1].                           *)
(***************************************************************************)
EXTENDS Integers, Sequences, FiniteSets, TLC

(* ------------------------------ bounds -------------------------------- *)
MaxControls == 2      \* native audio sessions the OS may ever report
LevelScale == 2       \* native level units per percent
HoldTicks == 6        \* hold_ms the controller is constructed with, in ticks
Step == 50            \* step the controller is constructed with, in percent
MaxLookups == 2       \* the calls of a resolver for an executable are counted up to this
MaxOrphans == 1       \* earlier refresh threads, still alive, that start() calls may leave behind

(* ------------------------- program constants -------------------------- *)
None == -1            \* Python's None, for optional numbers
EventCooldown == 6    \* self.event_cooldown = 0.06
GuardWindow == 30     \* time.time() + 0.30
RestoreDelay == 5     \* time.sleep(0.05)
IgnoreCount == 3      \* self.ignore_deltas_count = 3
MaxPercent == 100     \* max(0, min(100, ...))

CtlIds == 1..MaxControls
\* The executables of the applications, and the caches before any refresh.
Paths == {"Example", "Player"}
NoCache == [p \in Paths |-> "absent"]
NoLookups == [name |-> [p \in Paths |-> 0], icon |-> [p \in Paths |-> 0]]
MaxLevel == MaxPercent * LevelScale

\* Display names the resolver may give the process behind a native session.
CtlNames(k) == IF k = 1 THEN {"Example"} ELSE {"Example", "Player"}
\* Levels a native session may have when its application starts playing.
OpenLevels == {(MaxLevel \div 2) + 1, MaxLevel}
\* Indexes and volumes passed to set_volume when it is called directly.
Indexes == (0 - 1)..MaxControls
Volumes == {0, MaxPercent}
\* Deltas passed to change_volume when it is called directly.
Deltas == {0 - 150, 0 - 50, 0, 50, 150}
\* Master-volume side effects of the OS's own handling of a wheel key.
Drifts == {0, 2 * LevelScale}

VARIABLES
  ctl,                 \* the OS: native session k -> [st, name, level, mute]
  master,              \* the OS: master level, 0..MaxLevel
  masterMute,          \* the OS: master mute flag
  sessions,            \* AudioManager.sessions
  selected_index,      \* AudioManager.selected_index
  navigation_mode,     \* AudioManager.navigation_mode
  running,             \* MediaWheelController.running
  mode,                \* MediaWheelController.mode
  mute_held,           \* time.time() - MediaWheelController.mute_down_at
  last_master_volume,  \* MediaWheelController.last_master_volume
  guard_left,          \* MediaWheelController.guard_until - time.time()
  since_delta,         \* time.time() - MediaWheelController.last_delta_at
  ignore_deltas_count, \* MediaWheelController.ignore_deltas_count
  call,                \* the last direct AudioManager call and its native calls
  nextRun,             \* the run of consecutive direct next_session calls
  ev,                  \* the last key event handled and what the handler did
  keylog,              \* what the earlier key events were, as later ones need it
  rpc,                 \* refresh thread: its position in update_sessions
  rdict,               \* refresh thread: sessions_dict.values() of the pass under way
  hpc,                 \* hook thread: its position in the wheel key-down under way
  hdelta,              \* hook thread: delta of the wheel key-down under way
  hlocals,             \* hook thread: the locals of the directory call under way
  hooked,              \* whether _handle_keyboard is registered with the keyboard hook
  refresh_thread,      \* MediaWheelController.refresh_thread: where its loop stands
  orphans,             \* loops of earlier start() calls that have not returned
  name_cache,          \* AudioManager.name_cache: executable -> name, or "absent"
  icon_cache,          \* AudioManager.icon_cache: executable -> icon, or "absent"
  lookups              \* how often each resolver was called for each executable

osVars == <<ctl, master, masterMute>>
dirVars == <<sessions, selected_index, navigation_mode>>
keyVars == <<running, mode, mute_held, last_master_volume, guard_left,
             since_delta, ignore_deltas_count>>
vars == <<ctl, master, masterMute, sessions, selected_index, navigation_mode,
          running, mode, mute_held, last_master_volume, guard_left,
          since_delta, ignore_deltas_count, call, nextRun, ev, keylog,
          rpc, rdict, hpc, hdelta, hlocals, hooked, refresh_thread, orphans,
          name_cache, icon_cache, lookups>>
concVars == <<rpc, rdict, hpc, hdelta, hlocals>>
lifeVars == <<hooked, refresh_thread, orphans>>
cacheVars == <<name_cache, icon_cache, lookups>>

Min(a, b) == IF a < b THEN a ELSE b
Max(a, b) == IF a > b THEN a ELSE b

(* --------------------------- native controls -------------------------- *)
\* A native session is enumerated by GetAllSessions, and its volume control
\* answers calls, while its application is playing.
Live(c, k) == c[k].st = "live"

\* int(volume_control.GetMasterVolume() * 100)
ToPercent(level) == level \div LevelScale

\* volume / 100.0, as passed to SetMasterVolume
ToLevel(volume) == volume * LevelScale

SetControlsVolumeAllOrNone(c, ks, volume) ==
  [k \in CtlIds |->
     IF k \in ks /\ (\A j \in ks : Live(c, j)) /\ volume >= 0 /\ volume <= MaxPercent
     THEN [c[k] EXCEPT !.level = ToLevel(volume)]
     ELSE c[k]]

\* control.SetMasterVolume(volume / 100.0, None) on every control in ks; a
\* call on a control that raises is swallowed and leaves that control alone.
SetControlsVolume(c, ks, volume) ==
  [k \in CtlIds |->
     IF k \in ks /\ Live(c, k) /\ volume >= 0 /\ volume <= MaxPercent
     THEN [c[k] EXCEPT !.level = ToLevel(volume)]
     ELSE c[k]]

SetControlsMuteEvery(c, ks, flag) ==
  [k \in CtlIds |-> IF Live(c, k) THEN [c[k] EXCEPT !.mute = flag] ELSE c[k]]

\* control.SetMute(flag, None) on every control in ks, failures swallowed.
SetControlsMute(c, ks, flag) ==
  [k \in CtlIds |->
     IF k \in ks /\ Live(c, k) THEN [c[k] EXCEPT !.mute = flag] ELSE c[k]]

Range(s) == {s[i] : i \in 1..Len(s)}

RECURSIVE SumLevels(_, _)
SumLevels(c, ks) ==
  IF ks = <<>> THEN 0 ELSE c[Head(ks)].level + SumLevels(c, Tail(ks))

\* The sum of the controls' volumes as whole percents.
RECURSIVE SumPercents(_, _)
SumPercents(c, ks) ==
  IF ks = <<>> THEN 0 ELSE ToPercent(c[Head(ks)].level) + SumPercents(c, Tail(ks))

(* ---------------------------- AudioManager ---------------------------- *)
\* int(sum(vc.GetMasterVolume() * 100 for vc in controls) / len(controls))
MeanPercent(c, ks) == SumLevels(c, ks) \div (LevelScale * Len(ks))

LastMuted(c, ks) == c[ks[Len(ks)]].mute
\* any(existing['_mutes'])
AnyMuted(c, ks) == \E j \in Range(ks) : c[j].mute

AddSessionApart(c, k, acc) ==
  Append(acc, [name |-> c[k].name, volume |-> ToPercent(c[k].level),
               isMuted |-> c[k].mute, controls |-> <<k>>])

\* One iteration of the enumeration loop of update_sessions: native session k
\* is either the first of its name (a new entry) or joins the entry of its name.
AddSession(c, k, acc) ==
  LET same == {i \in 1..Len(acc) : acc[i].name = c[k].name}
  IN IF same = {}
     THEN Append(acc, [name |-> c[k].name,
                       volume |-> ToPercent(c[k].level),
                       isMuted |-> c[k].mute,
                       controls |-> <<k>>])
     ELSE LET i == CHOOSE j \in same : TRUE
              ks == Append(acc[i].controls, k)
          IN [acc EXCEPT ![i] = [name |-> acc[i].name,
                                 volume |-> MeanPercent(c, ks),
                                 isMuted |-> AnyMuted(c, ks),
                                 controls |-> ks]]

RECURSIVE GroupSessions(_, _, _)
GroupSessions(c, k, acc) ==
  IF k > MaxControls THEN acc
  ELSE IF Live(c, k) THEN GroupSessions(c, k + 1, AddSession(c, k, acc))
  ELSE GroupSessions(c, k + 1, acc)

ClampIndexKeep(si, n) == si
ClampIndexToLast(si, n) == Max(0, n - 1)
\* if self.selected_index >= len(self.sessions): max(0, len(self.sessions) - 1)
ClampIndex(si, n) == IF si >= n THEN Max(0, n - 1) ELSE si

UpdateSessionsClearing(ss, si, c, ok) ==
  LET new == IF ok THEN GroupSessions(c, 1, <<>>) ELSE <<>>
  IN [raised |-> ~ok, sessions |-> new,
      selected_index |-> ClampIndex(si, Len(new))]

\* update_sessions: ok = FALSE is an enumeration that raises before the
\* session list is replaced.
update_sessions(ss, si, c, ok) ==
  IF ~ok THEN [raised |-> TRUE, sessions |-> ss, selected_index |-> si]
  ELSE LET new == GroupSessions(c, 1, <<>>)
       IN [raised |-> FALSE, sessions |-> new,
           selected_index |-> ClampIndex(si, Len(new))]

get_state(ss, si, nav) ==
  [sessions |-> [i \in 1..Len(ss) |->
                   [name |-> ss[i].name, volume |-> ss[i].volume,
                    isSelected |-> (i - 1 = si), isMuted |-> ss[i].isMuted]],
   selectedIndex |-> si,
   navigationMode |-> nav]

InRangeFromEnd(index, n) == 0 - n <= index /\ index < n
\* 0 <= index < len(self.sessions)
InRange(index, n) == 0 <= index /\ index < n

\* self.sessions[index]: the position, counted from 1, that a list of length n
\* gives the index; a negative index counts from the end.
ListPos(index, n) == IF index < 0 THEN n + index + 1 ELSE index + 1

\* set_volume(index, volume)
set_volume(ss, c, index, volume) ==
  IF ~InRange(index, Len(ss))
  THEN [ret |-> FALSE, sessions |-> ss, ctl |-> c, volset |-> {}]
  ELSE LET i == ListPos(index, Len(ss))
       IN [ret |-> TRUE,
           sessions |-> [ss EXCEPT ![i].volume = volume],
           ctl |-> SetControlsVolume(c, Range(ss[i].controls), volume),
           volset |-> Range(ss[i].controls)]

ClampUpperOnly(v) == Min(MaxPercent, v)
\* max(0, min(100, v))
Clamp(v) == Max(0, Min(MaxPercent, v))

NeedsUnmuteOnRaise(session, delta) == session.isMuted /\ delta > 0
\* if session.get('isMuted', False)
NeedsUnmute(session, delta) == session.isMuted

\* change_volume(delta).  raised: self.sessions[self.selected_index] is out of
\* range (IndexError).  returns: what the caller gets, None or the value of
\* self.get_state() after the change.
change_volume(ss, si, c, delta) ==
  IF ss = <<>>
  THEN [raised |-> FALSE, empty |-> TRUE, sessions |-> ss, ctl |-> c,
        unmuted |-> {}, volset |-> {}, returns |-> "None"]
  ELSE IF si >= Len(ss)
  THEN [raised |-> TRUE, empty |-> FALSE, sessions |-> ss, ctl |-> c,
        unmuted |-> {}, volset |-> {}, returns |-> "IndexError"]
  ELSE LET session == ss[si + 1]
           new_vol == Clamp(session.volume + delta)
           un == NeedsUnmute(session, delta)
           ks == Range(session.controls)
           ss1 == IF un THEN [ss EXCEPT ![si + 1].isMuted = FALSE] ELSE ss
           c1 == IF un THEN SetControlsMute(c, ks, FALSE) ELSE c
           r == set_volume(ss1, c1, si, new_vol)
       IN [raised |-> FALSE, empty |-> FALSE, sessions |-> r.sessions,
           ctl |-> r.ctl, unmuted |-> IF un THEN ks ELSE {},
           volset |-> r.volset, returns |-> "get_state"]

NextIndexNoWrap(si, n) == Min(si + 1, n - 1)
\* (self.selected_index + 1) % len(self.sessions)
NextIndex(si, n) == (si + 1) % n

\* (self.selected_index - 1) % len(self.sessions)
PrevIndex(si, n) == (si - 1) % n

next_session(ss, si) == IF ss # <<>> THEN NextIndex(si, Len(ss)) ELSE si

prev_session(ss, si) == IF ss # <<>> THEN PrevIndex(si, Len(ss)) ELSE si

(* ------------------------------ the OS -------------------------------- *)
NoControl == [st |-> "new", name |-> "", level |-> 0, mute |-> FALSE]
GoneControl == [st |-> "closed", name |-> "", level |-> 0, mute |-> FALSE]

\* An application starts playing: GetAllSessions reports its session from now on.
OSOpen ==
  /\ \E k \in CtlIds, nm \in {"Example", "Player"}, lv \in OpenLevels, mu \in BOOLEAN :
       /\ ctl[k].st = "new"
       /\ nm \in CtlNames(k)
       /\ ctl' = [ctl EXCEPT ![k] = [st |-> "live", name |-> nm, level |-> lv, mute |-> mu]]
  /\ UNCHANGED <<master, masterMute, dirVars, keyVars, call, nextRun, ev, keylog, concVars>>
  /\ UNCHANGED <<lifeVars, cacheVars>>

\* An application exits: its session is no longer reported and calls on its
\* volume control raise.
OSClose ==
  /\ \E k \in CtlIds :
       /\ ctl[k].st = "live"
       /\ ctl' = [ctl EXCEPT ![k] = GoneControl]
  /\ UNCHANGED <<master, masterMute, dirVars, keyVars, call, nextRun, ev, keylog, concVars>>
  /\ UNCHANGED <<lifeVars, cacheVars>>

(* --------------------- history of the directory calls ----------------- *)
NoCall == [op |-> "none", delta |-> 0, unmuted |-> {}, volset |-> {},
           raised |-> FALSE, index |-> 0, volume |-> 0, ret |-> FALSE,
           returns |-> "none", again |-> FALSE, name |-> ""]
\* The application at the selected position, "" when there is none.
SelectedName(ss, si) ==
  IF 0 <= si /\ si < Len(ss) THEN ss[si + 1].name ELSE ""
NoRun == [start |-> 0, count |-> 0]

\* The run of consecutive next_session calls on a non-empty directory: a run
\* that has made as many calls as there are sessions is complete, and the next
\* call starts a new one.
RunAfterNext(run, ss, si) ==
  IF ss = <<>> THEN NoRun
  ELSE IF run.count = 0 \/ run.count >= Len(ss) THEN [start |-> si, count |-> 1]
  ELSE [start |-> run.start, count |-> run.count + 1]

ChangeCall(ss, si, delta, r) ==
  [NoCall EXCEPT !.op = "change_volume", !.delta = delta,
                 !.unmuted = r.unmuted, !.volset = r.volset,
                 !.raised = r.raised, !.returns = r.returns]

(* ------------- AudioManager called directly (no key handler) ---------- *)
DirRefresh ==
  /\ \E ok \in BOOLEAN :
       LET r == update_sessions(sessions, selected_index, ctl, ok)
       IN /\ sessions' = r.sessions
          /\ selected_index' = r.selected_index
          /\ call' = [NoCall EXCEPT !.op = "update_sessions", !.raised = r.raised,
                                    !.index = selected_index,
                                    !.name = SelectedName(sessions, selected_index)]
  /\ nextRun' = NoRun
  /\ UNCHANGED <<osVars, navigation_mode, keyVars, ev, keylog, concVars>>
  /\ UNCHANGED <<lifeVars, cacheVars>>

DirChangeVolume ==
  /\ \E delta \in Deltas :
       LET r == change_volume(sessions, selected_index, ctl, delta)
       IN /\ sessions' = r.sessions
          /\ ctl' = r.ctl
          /\ call' = ChangeCall(sessions, selected_index, delta, r)
  /\ UNCHANGED <<master, masterMute, selected_index, navigation_mode, keyVars,
                 nextRun, ev, keylog, concVars>>
  /\ UNCHANGED <<lifeVars, cacheVars>>

DirSetVolume ==
  /\ \E index \in Indexes, volume \in Volumes :
       LET r == set_volume(sessions, ctl, index, volume)
       IN /\ sessions' = r.sessions
          /\ ctl' = r.ctl
          /\ call' = [NoCall EXCEPT !.op = "set_volume", !.index = index,
                                    !.volume = volume, !.volset = r.volset,
                                    !.ret = r.ret]
  /\ UNCHANGED <<master, masterMute, selected_index, navigation_mode, keyVars,
                 nextRun, ev, keylog, concVars>>
  /\ UNCHANGED <<lifeVars, cacheVars>>

DirNext ==
  /\ selected_index' = next_session(sessions, selected_index)
  /\ call' = [NoCall EXCEPT !.op = "next_session"]
  /\ nextRun' = RunAfterNext(nextRun, sessions, selected_index)
  /\ UNCHANGED <<osVars, sessions, navigation_mode, keyVars, ev, keylog, concVars>>
  /\ UNCHANGED <<lifeVars, cacheVars>>

DirPrev ==
  /\ selected_index' = prev_session(sessions, selected_index)
  /\ call' = [NoCall EXCEPT !.op = "prev_session"]
  /\ nextRun' = NoRun
  /\ UNCHANGED <<osVars, sessions, navigation_mode, keyVars, ev, keylog, concVars>>
  /\ UNCHANGED <<lifeVars, cacheVars>>

(* ------------------------ master volume (backend) --------------------- *)
\* get_master_volume(): the level, or None when the endpoint call raises.
get_master_volume(ma, ok) == IF ok THEN ma ELSE None

\* set_master_volume(level): best effort, a failure is swallowed.
set_master_volume(ma, level, ok) ==
  IF ok /\ level >= 0 /\ level <= MaxLevel THEN level ELSE ma

\* toggle_master_mute(): the flag flipped, unless the endpoint call raises.
toggle_master_mute(mm, ok) ==
  [ret |-> ok, masterMute |-> IF ok THEN ~mm ELSE mm]

\* get_master(): int(v * 100), or None.
get_master(ma, ok) == IF ok THEN ToPercent(ma) ELSE None

\* set_master(volume): clamps to 0..100 and sets volume / 100.0.
set_master(ma, volume, ok) == set_master_volume(ma, ToLevel(Clamp(volume)), ok)

(* ------------------------ MediaWheelController ------------------------ *)
MediaKeys == {"volume up", "volume down", "volume mute"}
WheelKeys == {"volume up", "volume down"}

IsMediaKeyNever(name) == FALSE
\* event.name in ('volume up', 'volume down', 'volume mute')
IsMediaKey(name) == name \in MediaKeys

\* _current_session(): the position in sessions of the selected session, or 0
\* for None.
current_session(ss, si) ==
  IF ss = <<>> THEN 0
  ELSE IF 0 <= si /\ si < Len(ss) THEN si + 1
  ELSE 0

\* _nudge_master(delta)
nudge_master(ma, delta, ok) ==
  LET current == get_master(ma, ok)
  IN IF current = None THEN ma ELSE set_master(ma, current + delta, ok)

AlwaysSelect(m) == "select"
\* 'select' if self.mode == 'volume' else 'volume'
ToggledMode(m) == IF m = "volume" THEN "select" ELSE "volume"

IsLongPressStrict(held) == held > HoldTicks
\* held >= self.hold_ms
IsLongPress(held) == held >= HoldTicks

DrainedAll(n) == 0
DrainedNot(n) == n
\* self.ignore_deltas_count -= 1
Drained(n) == n - 1

InCooldownShort(since) == since < EventCooldown - 1
\* (now - self.last_delta_at) < self.event_cooldown
InCooldown(since) == since < EventCooldown

DebounceNoGuard(ign, guard, since) ==
  IF ign > 0 THEN "ignore"
  ELSE IF since < EventCooldown THEN "cooldown"
  ELSE "accept"

\* The debounce of a wheel key-down: which of the three guards drops it.
\*   if self.ignore_deltas_count > 0 / if now < self.guard_until /
\*   if (now - self.last_delta_at) < self.event_cooldown
Debounce(ign, guard, since) ==
  IF ign > 0 THEN "ignore"
  ELSE IF guard > 0 THEN "guard"
  ELSE IF InCooldown(since) THEN "cooldown"
  ELSE "accept"

\* The stored timestamps seen d ticks later.
LaterSince(since, d) == Min(EventCooldown, since + d)
LaterGuard(guard, d) == Max(0, guard - d)
LaterHeld(held, d) == IF held = None THEN None ELSE Min(HoldTicks + 1, held + d)

PressTimeKeepFirst(held, d) == LaterHeld(IF held = None THEN 0 ELSE held, d)
\* self.mute_down_at = time.time(), seen d ticks later
PressTime(held, d) == LaterHeld(0, d)

MasterRaised(current, last) == current > last
\* if current != self.last_master_volume
MasterChanged(current, last) == current # last

NavigatesNever(m) == FALSE
\* if self.mode == 'select'
Navigates(m) == m = "select"

\* _handle_volume_change(delta)
handle_volume_change(m, ss, si, c, ma, delta, ok) ==
  IF Navigates(m)
  THEN [branch |-> "select", sessions |-> ss, ctl |-> c, master |-> ma,
        selected_index |-> IF delta > 0 THEN next_session(ss, si)
                           ELSE prev_session(ss, si),
        unmuted |-> {}, volset |-> {}]
  ELSE IF current_session(ss, si) # 0
  THEN LET r == change_volume(ss, si, c, delta)
       IN [branch |-> "session", sessions |-> r.sessions, ctl |-> r.ctl,
           master |-> ma, selected_index |-> si,
           unmuted |-> r.unmuted, volset |-> r.volset]
  ELSE [branch |-> "master", sessions |-> ss, ctl |-> c,
        master |-> nudge_master(ma, delta, ok), selected_index |-> si,
        unmuted |-> {}, volset |-> {}]

MuteAlways(session) == TRUE
\* target_mute = not session.get('isMuted', False)
TargetMute(session) == ~session.isMuted

\* _mute_current()
mute_current(ss, si, c, mm, ok) ==
  LET p == current_session(ss, si)
  IN IF p # 0 /\ ss[p].controls # <<>>
     THEN LET target_mute == TargetMute(ss[p])
          IN [branch |-> "long_session",
              sessions |-> [ss EXCEPT ![p].isMuted = target_mute],
              ctl |-> SetControlsMute(c, Range(ss[p].controls), target_mute),
              masterMute |-> mm, toggled |-> FALSE,
              mutedTo |-> Range(ss[p].controls)]
     ELSE LET t == toggle_master_mute(mm, ok)
          IN [branch |-> "long_master", sessions |-> ss, ctl |-> c,
              masterMute |-> t.masterMute, toggled |-> t.ret, mutedTo |-> {}]

NoEvent == [type |-> "none", name |-> "", branch |-> "none", ret |-> TRUE,
            ui |-> FALSE, postRead |-> FALSE, post |-> None, restored |-> None,
            held |-> None, toggled |-> FALSE, mutedTo |-> {}]

ClampLevel(l) == Max(0, Min(MaxLevel, l))

\* A thread that has been started and whose _refresh_loop has not returned.
StillRuns(t) == t \in {"while", "update", "sleep"}

\* start(): the first refresh (an error is printed and swallowed), the refresh
\* thread and the keyboard hook.
Start ==
  /\ ~running
  /\ StillRuns(refresh_thread) => Len(orphans) < MaxOrphans
  /\ running' = TRUE
  /\ refresh_thread' = "while"
  /\ orphans' = IF StillRuns(refresh_thread)
                THEN Append(orphans, refresh_thread) ELSE orphans
  /\ hooked' = TRUE
  /\ \E ok \in BOOLEAN :
       LET r == update_sessions(sessions, selected_index, ctl, ok)
       IN /\ sessions' = r.sessions
          /\ selected_index' = r.selected_index
  /\ ev' = NoEvent
  /\ UNCHANGED <<osVars, navigation_mode, mode, mute_held, last_master_volume,
                 guard_left, since_delta, ignore_deltas_count, call, nextRun,
                 concVars>>
  /\ UNCHANGED cacheVars

\* One pass of _refresh_loop: update_sessions, an error printed and swallowed.
Refresh ==
  /\ running
  /\ \E ok \in BOOLEAN :
       LET r == update_sessions(sessions, selected_index, ctl, ok)
       IN /\ sessions' = r.sessions
          /\ selected_index' = r.selected_index
  /\ ev' = NoEvent
  /\ UNCHANGED <<osVars, navigation_mode, keyVars, call, nextRun, concVars>>
  /\ UNCHANGED <<lifeVars, cacheVars>>

\* One tick of wall-clock time passes.
Tick ==
  /\ running
  /\ since_delta' = LaterSince(since_delta, 1)
  /\ guard_left' = LaterGuard(guard_left, 1)
  /\ mute_held' = LaterHeld(mute_held, 1)
  /\ ev' = NoEvent
  /\ UNCHANGED <<osVars, dirVars, running, mode, last_master_volume,
                 ignore_deltas_count, call, nextRun, concVars>>
  /\ UNCHANGED <<lifeVars, cacheVars>>

\* _handle_keyboard on a key that is not a multimedia key, or on a key-up of
\* a key other than volume mute: passed through.
KeyPass ==
  /\ running
  /\ \E name \in {"a", "volume up"}, type \in {"down", "up"} :
       /\ \/ ~IsMediaKey(name)
          \/ (type = "up" /\ name # "volume mute")
       /\ ev' = [NoEvent EXCEPT !.type = type, !.name = name, !.branch = "pass"]
  /\ UNCHANGED <<osVars, dirVars, keyVars, call, nextRun, concVars>>
  /\ UNCHANGED <<lifeVars, cacheVars>>

SinceAfterDropRestarted(since) == 0
\* the three early returns come before self.last_delta_at = now
SinceAfterDrop(since) == since

\* _handle_keyboard on a wheel key-down that the debounce drops: the master
\* snapshot is taken, the event is suppressed, and the handler returns early.
WheelDropped ==
  /\ running
  /\ \E name \in WheelKeys, ok \in BOOLEAN :
       LET d == Debounce(ignore_deltas_count, guard_left, since_delta)
       IN /\ d # "accept"
          /\ last_master_volume' = get_master_volume(master, ok)
          /\ ignore_deltas_count' =
               IF d = "ignore" THEN Drained(ignore_deltas_count)
               ELSE ignore_deltas_count
          /\ ev' = [NoEvent EXCEPT !.type = "down", !.name = name, !.branch = d,
                                   !.ret = FALSE, !.ui = TRUE]
  /\ since_delta' = SinceAfterDrop(since_delta)
  /\ UNCHANGED <<osVars, dirVars, running, mode, mute_held, guard_left,
                 call, nextRun, concVars>>
  /\ UNCHANGED <<lifeVars, cacheVars>>

\* _handle_keyboard on an accepted wheel key-down: the action, then the
\* restoration of the master level after the delay.  ok: whether the audio
\* endpoint answers during this event; drift: what the OS's own handling of
\* the key does to the master level meanwhile.
WheelAccepted ==
  /\ running
  /\ Debounce(ignore_deltas_count, guard_left, since_delta) = "accept"
  /\ \E name \in WheelKeys, ok \in BOOLEAN, drift \in Drifts :
       LET snap == get_master_volume(master, ok)
           delta == IF name = "volume up" THEN Step ELSE 0 - Step
           r == handle_volume_change(mode, sessions, selected_index, ctl, master,
                                     delta, ok)
           slept == IF snap = None THEN 0 ELSE RestoreDelay
           drifted == IF snap = None THEN r.master
                      ELSE ClampLevel(r.master + (IF delta > 0 THEN drift ELSE 0 - drift))
           current == get_master_volume(drifted, ok)
           fix == snap # None /\ MasterChanged(current, snap)
       IN /\ last_master_volume' = snap
          /\ since_delta' = LaterSince(0, slept)
          /\ guard_left' = LaterGuard(guard_left, slept)
          /\ mute_held' = LaterHeld(mute_held, slept)
          /\ sessions' = r.sessions
          /\ selected_index' = r.selected_index
          /\ ctl' = r.ctl
          /\ master' = IF fix THEN set_master_volume(drifted, snap, ok) ELSE drifted
          /\ ev' = [NoEvent EXCEPT !.type = "down", !.name = name,
                                   !.branch = r.branch,
                                   !.ret = FALSE, !.ui = TRUE,
                                   !.postRead = (snap # None),
                                   !.post = IF snap # None THEN current ELSE None,
                                   !.restored = IF fix THEN snap ELSE None,
                                   !.mutedTo = r.unmuted]
  /\ UNCHANGED <<masterMute, navigation_mode, running, mode,
                 ignore_deltas_count, call, nextRun, concVars>>
  /\ UNCHANGED <<lifeVars, cacheVars>>

\* _handle_keyboard on a volume-mute key-down: never debounced; records the
\* time of the press, then restores the master level after the delay.
MuteDown ==
  /\ running
  /\ \E ok \in BOOLEAN :
       LET snap == get_master_volume(master, ok)
           slept == IF snap = None THEN 0 ELSE RestoreDelay
           current == get_master_volume(master, ok)
           fix == snap # None /\ MasterChanged(current, snap)
       IN /\ last_master_volume' = snap
          /\ mute_held' = PressTime(mute_held, slept)
          /\ since_delta' = LaterSince(since_delta, slept)
          /\ guard_left' = LaterGuard(guard_left, slept)
          /\ master' = IF fix THEN set_master_volume(master, snap, ok) ELSE master
          /\ ev' = [NoEvent EXCEPT !.type = "down", !.name = "volume mute",
                                   !.branch = "mutedown",
                                   !.ret = FALSE, !.ui = TRUE,
                                   !.postRead = (snap # None),
                                   !.post = IF snap # None THEN current ELSE None,
                                   !.restored = IF fix THEN snap ELSE None]
  /\ UNCHANGED <<ctl, masterMute, dirVars, running, mode,
                 ignore_deltas_count, call, nextRun, concVars>>
  /\ UNCHANGED <<lifeVars, cacheVars>>

IgnoreAccumulated(n) == n + IgnoreCount
\* self.ignore_deltas_count = 3
IgnoreAfterToggle(n) == IgnoreCount

ToggleModeBare ==
  /\ mode' = ToggledMode(mode)
  /\ UNCHANGED <<guard_left, since_delta, ignore_deltas_count>>

\* _toggle_mode(), as the assignments of the controller's fields:
\* guard_until = time.time() + 0.30, last_delta_at = 0.0 (long ago),
\* ignore_deltas_count = 3.
ToggleMode ==
  /\ mode' = ToggledMode(mode)
  /\ guard_left' = GuardWindow
  /\ since_delta' = EventCooldown
  /\ ignore_deltas_count' = IgnoreAfterToggle(ignore_deltas_count)

\* _handle_keyboard on a volume-mute key-up: _on_mute_up_internal(), and the
\* event is passed through.
MuteUp ==
  /\ running
  /\ mute_held' = None
  /\ IF mute_held = None
     THEN /\ ToggleMode
          /\ ev' = [NoEvent EXCEPT !.type = "up", !.name = "volume mute",
                                   !.branch = "orphan"]
          /\ UNCHANGED <<osVars, dirVars, running, last_master_volume, call,
                         nextRun, concVars>>
     ELSE IF IsLongPress(mute_held)
     THEN /\ \E ok \in BOOLEAN :
               LET r == mute_current(sessions, selected_index, ctl, masterMute, ok)
               IN /\ sessions' = r.sessions
                  /\ ctl' = r.ctl
                  /\ masterMute' = r.masterMute
                  /\ ev' = [NoEvent EXCEPT !.type = "up", !.name = "volume mute",
                                           !.branch = r.branch,
                                           !.held = mute_held,
                                           !.toggled = r.toggled,
                                           !.mutedTo = r.mutedTo]
          /\ UNCHANGED <<master, selected_index, navigation_mode, running, mode,
                         last_master_volume, guard_left, since_delta,
                         ignore_deltas_count, call, nextRun, concVars>>
     ELSE /\ ToggleMode
          /\ ev' = [NoEvent EXCEPT !.type = "up", !.name = "volume mute",
                                   !.branch = "short", !.held = mute_held]
          /\ UNCHANGED <<osVars, dirVars, running, last_master_volume, call,
                         nextRun, concVars>>
  /\ UNCHANGED <<lifeVars, cacheVars>>

(* ----------------------- history of the key events -------------------- *)
\* What is remembered of the earlier key events:
\*   up_age      the time since the handling time (`now`) of the last
\*               volume-up key-down, counted up to EventCooldown
\*   up_acc      whether the debounce let that key-down through
\*   up_chained  whether that key-down came less than EventCooldown after a
\*               volume-up key-down that the debounce had let through
\*   prev_mode   the mode before the last mute key-up, if that ended a short
\*               press ("none" otherwise)
\*   paired      whether the short press before that was a short press too
\*   in_guard    whether that key-up came inside the guard window
\* The first three are forgotten once up_age reaches EventCooldown.
NoKeys == [up_age |-> EventCooldown, up_acc |-> FALSE, up_chained |-> FALSE,
           prev_mode |-> "none", paired |-> FALSE, in_guard |-> FALSE]

LaterKeys(kl, d) ==
  IF kl.up_age + d >= EventCooldown
  THEN [kl EXCEPT !.up_age = EventCooldown, !.up_acc = FALSE,
                  !.up_chained = FALSE]
  ELSE [kl EXCEPT !.up_age = kl.up_age + d]

\* After a wheel key-down whose handler took d ticks.
KeysAfterWheel(kl, name, accepted, d) ==
  IF name = "volume up"
  THEN LaterKeys([kl EXCEPT !.up_age = 0, !.up_acc = accepted,
                            !.up_chained = (kl.up_age < EventCooldown /\ kl.up_acc)],
                 d)
  ELSE LaterKeys(kl, d)

\* After a mute key-up that took the given branch in mode m with g of the
\* guard window left.
KeysAfterMuteUp(kl, branch, m, g) ==
  IF branch = "short"
  THEN [kl EXCEPT !.prev_mode = m, !.paired = (kl.prev_mode # "none"),
                  !.in_guard = (g > 0)]
  ELSE [kl EXCEPT !.prev_mode = "none", !.paired = FALSE, !.in_guard = FALSE]

\* The time the handler that has just returned took: the restoration delay,
\* when it could read the master level.
Slept == IF last_master_volume' = None THEN 0 ELSE RestoreDelay

\* A native session playing at full level, not muted.
Playing(nm) == [st |-> "live", name |-> nm, level |-> MaxLevel, mute |-> FALSE]

\* Nothing is playing.
Silence == [k \in CtlIds |-> NoControl]
\* One application is playing, with two native sessions.
OneApp == [k \in CtlIds |-> IF k <= 2 THEN Playing("Example") ELSE NoControl]
\* Two applications are playing, with one native session each.
TwoApps == [k \in CtlIds |-> IF k = 1 THEN Playing("Example")
                             ELSE IF k = 2 THEN Playing("Player") ELSE NoControl]

\* The hook thread's locals in change_volume.  session: the dict its local
\* `session` refers to; pos: the position that dict had in the list it was
\* taken from (0: no dict); stale: whether self.sessions has been replaced
\* since, so that the dict is no longer one of the directory's; new_vol.
NoSession == [name |-> "", volume |-> 0, isMuted |-> FALSE, controls |-> <<>>]
NoLocals == [pos |-> 0, stale |-> FALSE, session |-> NoSession, new_vol |-> 0]

\* The state after MediaWheelController.__init__ (and AudioManager.__init__);
\* guard_until and last_delta_at are 0.0, long before now.
InitFields ==
  /\ master = (MaxLevel \div 2) + 1
  /\ masterMute = FALSE
  /\ sessions = <<>>
  /\ selected_index = 0
  /\ navigation_mode = FALSE
  /\ running = FALSE
  /\ mode = "volume"
  /\ mute_held = None
  /\ last_master_volume = None
  /\ guard_left = 0
  /\ since_delta = EventCooldown
  /\ ignore_deltas_count = 0
  /\ call = NoCall
  /\ nextRun = NoRun
  /\ ev = NoEvent
  /\ keylog = NoKeys
  /\ rpc = "idle"
  /\ rdict = <<>>
  /\ hpc = "idle"
  /\ hdelta = 0
  /\ hlocals = NoLocals
  /\ hooked = FALSE
  /\ refresh_thread = "none"
  /\ orphans = <<>>
  /\ name_cache = NoCache
  /\ icon_cache = NoCache
  /\ lookups = NoLookups

\* A controller constructed while some applications are playing.
Init ==
  /\ ctl \in {Silence, OneApp}
  /\ InitFields

Next ==
  \/ Start /\ UNCHANGED keylog
  \/ Refresh /\ UNCHANGED keylog
  \/ Tick /\ UNCHANGED keylog
  \/ KeyPass /\ UNCHANGED keylog
  \/ WheelDropped /\ UNCHANGED keylog
  \/ WheelAccepted /\ UNCHANGED keylog
  \/ MuteDown /\ UNCHANGED keylog
  \/ MuteUp /\ UNCHANGED keylog

\* The controller: key events, the refresh loop and the clock, each handler
\* run to completion.
Spec == Init /\ [][Next]_vars

\* No key is touched for longer than every window of the controller.
Pause ==
  /\ running
  /\ since_delta' = LaterSince(since_delta, GuardWindow + HoldTicks + 1)
  /\ guard_left' = LaterGuard(guard_left, GuardWindow + HoldTicks + 1)
  /\ mute_held' = LaterHeld(mute_held, GuardWindow + HoldTicks + 1)
  /\ ev' = NoEvent
  /\ UNCHANGED <<osVars, dirVars, running, mode, last_master_volume,
                 ignore_deltas_count, call, nextRun, concVars>>
  /\ UNCHANGED <<lifeVars, cacheVars>>

InitSessions ==
  /\ ctl \in {Silence, OneApp, TwoApps}
  /\ InitFields

NextSessions ==
  \/ Start /\ UNCHANGED keylog
  \/ Refresh /\ UNCHANGED keylog
  \/ Pause /\ UNCHANGED keylog
  \/ KeyPass /\ UNCHANGED keylog
  \/ WheelDropped /\ UNCHANGED keylog
  \/ WheelAccepted /\ UNCHANGED keylog
  \/ MuteDown /\ UNCHANGED keylog
  \/ MuteUp /\ UNCHANGED keylog

\* The controller with several applications playing, its keys touched in
\* bursts separated by pauses.
SpecSessions == InitSessions /\ [][NextSessions]_vars

\* A directory constructed with no application playing.
InitDir ==
  /\ ctl = [k \in CtlIds |-> NoControl]
  /\ InitFields

NextDir == OSOpen \/ OSClose \/ DirRefresh \/ DirChangeVolume \/ DirNext \/ DirPrev

\* The directory driven through its own interface.
SpecDir == InitDir /\ [][NextDir]_vars

\* Levels the native sessions may have when a directory is built over them:
\* 50 %, 51 % and 52 % exactly, and a level between 50 % and 51 %.
GroupLevels == {ToLevel(50), ToLevel(50) + 1, ToLevel(51), ToLevel(52)}

InitGroup ==
  /\ ctl \in [CtlIds -> {[st |-> "live", name |-> "Example", level |-> l, mute |-> m] :
                            l \in GroupLevels, m \in BOOLEAN}]
  /\ InitFields

NextGroup == DirRefresh \/ OSClose

\* A directory refreshed over native sessions of one application, at levels
\* that are and are not whole percents, muted and not.
SpecGroup == InitGroup /\ [][NextGroup]_vars

NextSet == OSOpen \/ OSClose \/ DirRefresh \/ DirSetVolume

\* set_volume called directly, between refreshes, while applications start
\* and stop playing.
SpecSet == InitDir /\ [][NextSet]_vars

\* The wheel turned while one application plays, with the clock and the mode
\* toggled by mute key-ups; every volume-up key-down is logged.
InitWheel ==
  /\ ctl = OneApp
  /\ InitFields

NextWheel ==
  \/ Start /\ UNCHANGED keylog
  \/ Refresh /\ UNCHANGED keylog
  \/ Tick /\ keylog' = LaterKeys(keylog, 1)
  \/ WheelDropped /\ keylog' = KeysAfterWheel(keylog, ev'.name, FALSE, 0)
  \/ WheelAccepted /\ keylog' = KeysAfterWheel(keylog, ev'.name, TRUE, Slept)
  \/ MuteUp /\ keylog' = LaterKeys(keylog, 0)

SpecWheel == InitWheel /\ [][NextWheel]_vars

\* The mute key pressed and released, and the wheel turned, with the clock;
\* every mute key-up is logged.
NextPresses ==
  \/ Start /\ UNCHANGED keylog
  \/ Tick /\ UNCHANGED keylog
  \/ WheelDropped /\ UNCHANGED keylog
  \/ WheelAccepted /\ UNCHANGED keylog
  \/ MuteDown /\ UNCHANGED keylog
  \/ MuteUp /\ keylog' = KeysAfterMuteUp(keylog, ev'.branch, mode, guard_left)

SpecPresses == InitWheel /\ [][NextPresses]_vars

\* The wheel turned without end while the clock runs: time passes, and wheel
\* key-downs keep arriving; orphan mute key-ups toggle the mode now and then.
BurstTick == Tick /\ UNCHANGED keylog

BurstWheel == (WheelDropped \/ WheelAccepted) /\ UNCHANGED keylog

BurstMuteUp == MuteUp /\ UNCHANGED keylog

NextBurst ==
  \/ Start /\ UNCHANGED keylog
  \/ BurstTick
  \/ BurstWheel
  \/ BurstMuteUp

SpecBurst ==
  /\ InitWheel
  /\ [][NextBurst]_vars
  /\ WF_vars(BurstTick)
  /\ WF_vars(BurstWheel)

(* ------------- the refresh thread and the hook thread, by steps -------- *)
\* update_sessions as the refresh thread runs it: the enumeration into the
\* local sessions_dict, then self.sessions = [], one append per entry, and
\* the clamp of selected_index.  No lock is taken anywhere.
RefreshEnumerate ==
  /\ running
  /\ rpc = "idle"
  /\ rdict' = GroupSessions(ctl, 1, <<>>)
  /\ rpc' = "clear"
  /\ UNCHANGED <<osVars, dirVars, keyVars, call, nextRun, ev, keylog,
                 hpc, hdelta, hlocals>>
  /\ UNCHANGED <<lifeVars, cacheVars>>

\* self.sessions = []
RefreshClear ==
  /\ rpc = "clear"
  /\ sessions' = <<>>
  /\ hlocals' = IF hlocals.pos # 0 THEN [hlocals EXCEPT !.stale = TRUE] ELSE hlocals
  /\ rpc' = IF rdict = <<>> THEN "clamp" ELSE "append"
  /\ UNCHANGED <<osVars, selected_index, navigation_mode, keyVars, call, nextRun,
                 ev, keylog, rdict, hpc, hdelta>>
  /\ UNCHANGED <<lifeVars, cacheVars>>

\* self.sessions.append(session_data)
RefreshAppend ==
  /\ rpc = "append"
  /\ sessions' = Append(sessions, rdict[Len(sessions) + 1])
  /\ rpc' = IF Len(sessions) + 1 = Len(rdict) THEN "clamp" ELSE "append"
  /\ UNCHANGED <<osVars, selected_index, navigation_mode, keyVars, call, nextRun,
                 ev, keylog, rdict, hpc, hdelta, hlocals>>
  /\ UNCHANGED <<lifeVars, cacheVars>>

\* if self.selected_index >= len(self.sessions): ...
RefreshClamp ==
  /\ rpc = "clamp"
  /\ selected_index' = ClampIndex(selected_index, Len(sessions))
  /\ rdict' = <<>>
  /\ rpc' = "idle"
  /\ UNCHANGED <<osVars, sessions, navigation_mode, keyVars, call, nextRun,
                 ev, keylog, hpc, hdelta, hlocals>>
  /\ UNCHANGED <<lifeVars, cacheVars>>

\* _handle_keyboard on a wheel key-down that the debounce lets through, up to
\* the dispatch in _handle_volume_change (the endpoint answers).
HookWheel ==
  /\ running
  /\ hpc = "idle"
  /\ Debounce(ignore_deltas_count, guard_left, since_delta) = "accept"
  /\ \E name \in WheelKeys :
       /\ hdelta' = IF name = "volume up" THEN Step ELSE 0 - Step
       /\ ev' = [NoEvent EXCEPT !.type = "down", !.name = name,
                                !.ret = FALSE, !.ui = TRUE]
  /\ last_master_volume' = get_master_volume(master, TRUE)
  /\ since_delta' = 0
  /\ hpc' = IF mode = "select" THEN "sel_check" ELSE "cur_check"
  /\ UNCHANGED <<osVars, dirVars, running, mode, mute_held, guard_left,
                 ignore_deltas_count, call, nextRun, keylog, rpc, rdict, hlocals>>
  /\ UNCHANGED <<lifeVars, cacheVars>>

\* next_session / prev_session: if self.sessions:
HookSelCheck ==
  /\ hpc = "sel_check"
  /\ hpc' = IF sessions # <<>> THEN "sel_move" ELSE "return"
  /\ UNCHANGED <<osVars, dirVars, keyVars, call, nextRun, ev, keylog,
                 rpc, rdict, hdelta, hlocals>>
  /\ UNCHANGED <<lifeVars, cacheVars>>

\* self.selected_index = (self.selected_index +/- 1) % len(self.sessions);
\* on a list emptied meanwhile the modulo raises ZeroDivisionError.
HookSelMove ==
  /\ hpc = "sel_move"
  /\ IF sessions = <<>>
     THEN hpc' = "raised" /\ UNCHANGED selected_index
     ELSE /\ selected_index' = IF hdelta > 0
                               THEN NextIndex(selected_index, Len(sessions))
                               ELSE PrevIndex(selected_index, Len(sessions))
          /\ hpc' = "return"
  /\ UNCHANGED <<osVars, sessions, navigation_mode, keyVars, call, nextRun, ev,
                 keylog, rpc, rdict, hdelta, hlocals>>
  /\ UNCHANGED <<lifeVars, cacheVars>>

\* _current_session(): if not self.audio.sessions: return None
HookCurCheck ==
  /\ hpc = "cur_check"
  /\ hpc' = IF sessions = <<>> THEN "nudge" ELSE "cur_index"
  /\ UNCHANGED <<osVars, dirVars, keyVars, call, nextRun, ev, keylog,
                 rpc, rdict, hdelta, hlocals>>
  /\ UNCHANGED <<lifeVars, cacheVars>>

\* _current_session(): the index test and the return (taken as one step).
HookCurIndex ==
  /\ hpc = "cur_index"
  /\ hpc' = IF current_session(sessions, selected_index) # 0
            THEN "chg_check" ELSE "nudge"
  /\ UNCHANGED <<osVars, dirVars, keyVars, call, nextRun, ev, keylog,
                 rpc, rdict, hdelta, hlocals>>
  /\ UNCHANGED <<lifeVars, cacheVars>>

\* change_volume: if not self.sessions: return None
HookChgCheck ==
  /\ hpc = "chg_check"
  /\ hpc' = IF sessions = <<>> THEN "return" ELSE "chg_index"
  /\ UNCHANGED <<osVars, dirVars, keyVars, call, nextRun, ev, keylog,
                 rpc, rdict, hdelta, hlocals>>
  /\ UNCHANGED <<lifeVars, cacheVars>>

\* change_volume: session = self.sessions[self.selected_index] (IndexError on
\* a list that is too short) and new_vol.
HookChgIndex ==
  /\ hpc = "chg_index"
  /\ IF selected_index >= Len(sessions)
     THEN hpc' = "raised" /\ UNCHANGED hlocals
     ELSE /\ hlocals' = [pos |-> selected_index + 1, stale |-> FALSE,
                         session |-> sessions[selected_index + 1],
                         new_vol |-> Clamp(sessions[selected_index + 1].volume
                                           + hdelta)]
          /\ hpc' = "chg_unmute"
  /\ UNCHANGED <<osVars, dirVars, keyVars, call, nextRun, ev, keylog,
                 rpc, rdict, hdelta>>
  /\ UNCHANGED <<lifeVars, cacheVars>>

\* change_volume: the unmute of the dict in hand, which is the directory's
\* only while the list it came from has not been replaced.
HookChgUnmute ==
  /\ hpc = "chg_unmute"
  /\ IF NeedsUnmute(hlocals.session, hdelta)
     THEN /\ ctl' = SetControlsMute(ctl, Range(hlocals.session.controls), FALSE)
          /\ hlocals' = [hlocals EXCEPT !.session.isMuted = FALSE]
          /\ sessions' = IF hlocals.stale THEN sessions
                         ELSE [sessions EXCEPT ![hlocals.pos].isMuted = FALSE]
     ELSE UNCHANGED <<ctl, hlocals, sessions>>
  /\ hpc' = "set_volume"
  /\ UNCHANGED <<master, masterMute, selected_index, navigation_mode, keyVars,
                 call, nextRun, ev, keylog, rpc, rdict, hdelta>>
  /\ UNCHANGED <<lifeVars, cacheVars>>

\* change_volume: self.set_volume(self.selected_index, new_vol), on the list
\* and the index as they are now.
HookSetVolume ==
  /\ hpc = "set_volume"
  /\ LET r == set_volume(sessions, ctl, selected_index, hlocals.new_vol)
     IN /\ sessions' = r.sessions
        /\ ctl' = r.ctl
  /\ hpc' = "return"
  /\ UNCHANGED <<master, masterMute, selected_index, navigation_mode, keyVars,
                 call, nextRun, ev, keylog, rpc, rdict, hdelta, hlocals>>
  /\ UNCHANGED <<lifeVars, cacheVars>>

\* _nudge_master(delta)
HookNudge ==
  /\ hpc = "nudge"
  /\ master' = nudge_master(master, hdelta, TRUE)
  /\ hpc' = "return"
  /\ UNCHANGED <<ctl, masterMute, dirVars, keyVars, call, nextRun, ev, keylog,
                 rpc, rdict, hdelta, hlocals>>
  /\ UNCHANGED <<lifeVars, cacheVars>>

\* _handle_keyboard after the action: the restoration of the master level.
HookReturn ==
  /\ hpc = "return"
  /\ master' = IF MasterChanged(master, last_master_volume)
               THEN set_master_volume(master, last_master_volume, TRUE)
               ELSE master
  /\ hpc' = "idle"
  /\ hdelta' = 0
  /\ hlocals' = NoLocals
  /\ UNCHANGED <<ctl, masterMute, dirVars, keyVars, call, nextRun, ev, keylog,
                 rpc, rdict>>
  /\ UNCHANGED <<lifeVars, cacheVars>>

\* The exception leaves _handle_keyboard: nothing is restored.
HookRaised ==
  /\ hpc = "raised"
  /\ hpc' = "idle"
  /\ hdelta' = 0
  /\ hlocals' = NoLocals
  /\ ev' = [ev EXCEPT !.branch = "raised"]
  /\ UNCHANGED <<osVars, dirVars, keyVars, call, nextRun, keylog, rpc, rdict>>
  /\ UNCHANGED <<lifeVars, cacheVars>>

\* A step of the hook thread that reads or writes self.sessions or
\* self.selected_index.
HookDirectoryStep ==
  \/ HookSelCheck \/ HookSelMove \/ HookCurCheck \/ HookCurIndex
  \/ HookChgCheck \/ HookChgIndex \/ HookChgUnmute \/ HookSetVolume

InitConc ==
  /\ ctl = TwoApps
  /\ InitFields

\* The key events are handled one at a time by the hook thread.
NextConc ==
  \/ Start /\ UNCHANGED keylog
  \/ hpc = "idle" /\ Pause /\ UNCHANGED keylog
  \/ hpc = "idle" /\ WheelDropped /\ UNCHANGED keylog
  \/ hpc = "idle" /\ MuteUp /\ UNCHANGED keylog
  \/ OSClose
  \/ RefreshEnumerate \/ RefreshClear \/ RefreshAppend \/ RefreshClamp
  \/ HookWheel \/ HookSelCheck \/ HookSelMove \/ HookCurCheck \/ HookCurIndex
  \/ HookChgCheck \/ HookChgIndex \/ HookChgUnmute \/ HookSetVolume
  \/ HookNudge \/ HookReturn \/ HookRaised

\* The refresh thread and the hook thread interleaved statement by statement.
SpecConc == InitConc /\ [][NextConc]_vars

(* ------------------ the life of the controller, by steps -------------- *)
\* refresh_thread is "none" while self.refresh_thread is None; once start()
\* has created the thread it is the position of _refresh_loop: "while" (about
\* to test self.running), "update" (inside the try, calling update_sessions),
\* "sleep" (in time.sleep(1)) or "ended" (the loop has returned).

AfterPassEnds(raised) == IF raised THEN "ended" ELSE "sleep"
\* try: update_sessions() / except Exception: print(...), then time.sleep(1)
AfterPass(raised) == "sleep"

HasThreadAlways(t) == TRUE
\* if self.refresh_thread
HasThread(t) == t # "none"

\* stop(): raised is an exception that leaves stop(); the only statement
\* outside a try is the join, which needs a thread.
stop(t) ==
  [running |-> FALSE, hooked |-> FALSE, raised |-> (HasThread(t) /\ t = "none")]

\* stop(), from the tray's exit action or from main.  The join waits at most
\* one second for the loop and changes nothing.  again: the controller was
\* already stopped, or never started.
Stop ==
  /\ LET r == stop(refresh_thread)
     IN /\ running' = r.running
        /\ hooked' = r.hooked
        /\ call' = [NoCall EXCEPT !.op = "stop", !.raised = r.raised,
                                  !.again = (~running /\ ~hooked)]
  /\ UNCHANGED <<osVars, dirVars, mode, mute_held, last_master_volume,
                 guard_left, since_delta, ignore_deltas_count, nextRun, ev,
                 keylog, concVars, refresh_thread, orphans>>
  /\ UNCHANGED cacheVars

WhileTestForever(r) == "update"
\* while self.running: the body, or the return of _refresh_loop
WhileTest(r) == IF r THEN "update" ELSE "ended"

\* while self.running
LoopWhile ==
  /\ refresh_thread = "while"
  /\ refresh_thread' = WhileTest(running)
  /\ UNCHANGED <<osVars, dirVars, keyVars, call, nextRun, ev, keylog, concVars,
                 hooked, orphans>>
  /\ UNCHANGED cacheVars

\* try: self.audio.update_sessions() / except Exception
LoopUpdate ==
  /\ refresh_thread = "update"
  /\ \E ok \in BOOLEAN :
       LET r == update_sessions(sessions, selected_index, ctl, ok)
       IN /\ sessions' = r.sessions
          /\ selected_index' = r.selected_index
          /\ call' = [NoCall EXCEPT !.op = "update_sessions", !.raised = r.raised]
          /\ refresh_thread' = AfterPass(r.raised)
  /\ UNCHANGED <<osVars, navigation_mode, keyVars, nextRun, ev, keylog, concVars,
                 hooked, orphans>>
  /\ UNCHANGED cacheVars

\* time.sleep(1)
LoopSleep ==
  /\ refresh_thread = "sleep"
  /\ refresh_thread' = "while"
  /\ UNCHANGED <<osVars, dirVars, keyVars, call, nextRun, ev, keylog, concVars,
                 hooked, orphans>>
  /\ UNCHANGED cacheVars

\* The controller started at most once, as main does, and stopped any number
\* of times, while applications start and stop playing.
NextLoop ==
  \/ Start /\ refresh_thread = "none" /\ UNCHANGED keylog
  \/ Stop
  \/ LoopWhile \/ LoopUpdate \/ LoopSleep
  \/ OSOpen \/ OSClose

\* The refresh thread is scheduled again and again, and its sleep returns.
SpecLoop ==
  /\ InitDir
  /\ [][NextLoop]_vars
  /\ WF_vars(LoopWhile) /\ WF_vars(LoopUpdate) /\ WF_vars(LoopSleep)

(* -------------- the controller stopped and started again -------------- *)
\* while self.running, in the loop of an earlier start(): the thread is gone
\* once the loop returns.
OrphanWhile ==
  /\ \E i \in 1..Len(orphans) :
       /\ orphans[i] = "while"
       /\ orphans' = IF running THEN [orphans EXCEPT ![i] = "update"]
                     ELSE SubSeq(orphans, 1, i - 1)
                          \o SubSeq(orphans, i + 1, Len(orphans))
  /\ UNCHANGED <<osVars, dirVars, keyVars, call, nextRun, ev, keylog, concVars,
                 hooked, refresh_thread>>
  /\ UNCHANGED cacheVars

\* try: self.audio.update_sessions() / except Exception, in the loop of an
\* earlier start().
OrphanUpdate ==
  /\ \E i \in 1..Len(orphans), ok \in BOOLEAN :
       LET r == update_sessions(sessions, selected_index, ctl, ok)
       IN /\ orphans[i] = "update"
          /\ sessions' = r.sessions
          /\ selected_index' = r.selected_index
          /\ call' = [NoCall EXCEPT !.op = "update_sessions", !.raised = r.raised,
                                    !.again = TRUE]
          /\ orphans' = [orphans EXCEPT ![i] = AfterPass(r.raised)]
  /\ UNCHANGED <<osVars, navigation_mode, keyVars, nextRun, ev, keylog, concVars,
                 hooked, refresh_thread>>
  /\ UNCHANGED cacheVars

\* time.sleep(1), in the loop of an earlier start().
OrphanSleep ==
  /\ \E i \in 1..Len(orphans) :
       /\ orphans[i] = "sleep"
       /\ orphans' = [orphans EXCEPT ![i] = "while"]
  /\ UNCHANGED <<osVars, dirVars, keyVars, call, nextRun, ev, keylog, concVars,
                 hooked, refresh_thread>>
  /\ UNCHANGED cacheVars

NextRestart ==
  \/ Start /\ UNCHANGED keylog
  \/ Stop
  \/ LoopWhile \/ LoopUpdate \/ LoopSleep
  \/ OrphanWhile \/ OrphanUpdate \/ OrphanSleep
  \/ OSOpen \/ OSClose

\* The controller started and stopped any number of times.
SpecRestart == InitDir /\ [][NextRestart]_vars

(* ------------------ the name and icon caches of a refresh ------------- *)
\* In the specifications above the name a native session resolves to is part
\* of the native session (ctl[k].name) and the caches are left out.  Here
\* ctl[k].name stands for the application's executable, and the lookups that
\* update_sessions makes for each session are modelled with their caches.

CachedIfTruthy(cache, p) == cache[p] \notin {"absent", "none", "Unknown"}
\* exe_path in self.name_cache / exe_path in self.icon_cache
Cached(cache, p) == cache[p] # "absent"

\* The lookups for native session k.  exe: session.Process.exe() answers
\* (exe_path is None otherwise); nameOk: get_app_name_clean, if called during
\* this pass, finds the name ("Unknown" otherwise); iconOk: get_app_icon_base64,
\* if called during this pass, finds an icon (None otherwise).  names[k]
\* becomes clean_name.
Lookup(st, c, k, exe, nameOk, iconOk) ==
  LET p == c[k].name
      resolved == IF nameOk THEN c[k].name ELSE "Unknown"
      extracted == IF iconOk THEN "icon" ELSE "none"
      hitName == exe /\ Cached(st.name_cache, p)
      hitIcon == exe /\ Cached(st.icon_cache, p)
  IN [name_cache |-> IF exe /\ ~hitName
                     THEN [st.name_cache EXCEPT ![p] = resolved]
                     ELSE st.name_cache,
      icon_cache |-> IF exe /\ ~hitIcon
                     THEN [st.icon_cache EXCEPT ![p] = extracted]
                     ELSE st.icon_cache,
      lookups |-> [name |-> IF exe /\ ~hitName
                            THEN [st.lookups.name EXCEPT
                                    ![p] = Min(MaxLookups, @ + 1)]
                            ELSE st.lookups.name,
                   icon |-> IF exe /\ ~hitIcon
                            THEN [st.lookups.icon EXCEPT
                                    ![p] = Min(MaxLookups, @ + 1)]
                            ELSE st.lookups.icon],
      names |-> [st.names EXCEPT
                   ![k] = IF hitName THEN st.name_cache[p] ELSE resolved]]

\* The enumeration loop of update_sessions over native sessions k..last.
RECURSIVE LookupsFrom(_, _, _, _, _, _, _)
LookupsFrom(st, c, k, last, exe, nameOk, iconOk) ==
  IF k > last THEN st
  ELSE IF Live(c, k)
  THEN LookupsFrom(Lookup(st, c, k, exe[k], nameOk, iconOk),
                   c, k + 1, last, exe, nameOk, iconOk)
  ELSE LookupsFrom(st, c, k + 1, last, exe, nameOk, iconOk)

\* update_sessions with its caches.  failAt = 0: the pass completes; failAt =
\* j > 0: it raises after the lookups of the native sessions before j.
CacheRefresh ==
  /\ \E exe \in [CtlIds -> BOOLEAN], nameOk \in BOOLEAN, iconOk \in BOOLEAN,
        failAt \in 0..(MaxControls + 1) :
       LET last == IF failAt = 0 THEN MaxControls ELSE failAt - 1
           st == LookupsFrom([name_cache |-> name_cache, icon_cache |-> icon_cache,
                              lookups |-> lookups,
                              names |-> [k \in CtlIds |-> ctl[k].name]],
                             ctl, 1, last, exe, nameOk, iconOk)
           named == [k \in CtlIds |-> [ctl[k] EXCEPT !.name = st.names[k]]]
           r == update_sessions(sessions, selected_index, named, failAt = 0)
       IN /\ name_cache' = st.name_cache
          /\ icon_cache' = st.icon_cache
          /\ lookups' = st.lookups
          /\ sessions' = r.sessions
          /\ selected_index' = r.selected_index
          /\ call' = [NoCall EXCEPT !.op = "update_sessions", !.raised = r.raised]
  /\ UNCHANGED <<osVars, navigation_mode, keyVars, nextRun, ev, keylog, concVars,
                 lifeVars>>

InitCache ==
  /\ ctl \in {OneApp, TwoApps}
  /\ InitFields

NextCache == CacheRefresh \/ OSClose

\* Refreshes of a directory over the native sessions of one or two
\* applications, which exit one by one.
SpecCache == InitCache /\ [][NextCache]_vars

(* ------------------- properties of the directory ---------------------- *)
\* C6: whatever deltas change_volume is called with (also of magnitude above
\* 100), interleaved with next_session, prev_session and refreshes, the cached
\* volume of every session stays within 0..100.
VolumesStayInRange ==
  \A i \in 1..Len(sessions) :
    sessions[i].volume >= 0 /\ sessions[i].volume <= MaxPercent

\* A change_volume(-150) has just brought the selected session from above 0
\* down to the lower end of the range.
VolumeClampedAtZero ==
  /\ call.op = "change_volume"
  /\ call.delta = 0 - 150
  /\ call.volset # {}
  /\ selected_index < Len(sessions)
  /\ sessions[selected_index + 1].volume = 0

\* C7: change_volume(delta) on a muted selected session, whatever the delta,
\* issues SetMute(False) to every control of that session and leaves its
\* isMuted false.
AdjustUnmutes ==
  [][(/\ DirChangeVolume
      /\ selected_index < Len(sessions)
      /\ sessions[selected_index + 1].isMuted)
     => (/\ call'.unmuted = Range(sessions[selected_index + 1].controls)
         /\ ~sessions'[selected_index + 1].isMuted
         /\ \A k \in Range(sessions[selected_index + 1].controls) :
              Live(ctl, k) => ~ctl'[k].mute)]_vars

\* A change_volume(-50) has just unmuted both controls of a muted session
\* whose volume it could not lower any further.
MutedSessionAdjusted ==
  /\ call.op = "change_volume"
  /\ call.delta = 0 - 50
  /\ Cardinality(call.unmuted) = 2
  /\ selected_index < Len(sessions)
  /\ sessions[selected_index + 1].volume = 0
  /\ ~sessions[selected_index + 1].isMuted

\* C8: with N >= 1 sessions, N consecutive next_session calls with no refresh
\* in between bring selected_index back to the value it had before the first.
NextWrapsAround ==
  (nextRun.count >= 1 /\ nextRun.count = Len(sessions))
    => selected_index = nextRun.start

\* Two sessions, and two next_session calls started from the second one.
WrappedFromLast ==
  /\ Len(sessions) = 2
  /\ nextRun.count = 2
  /\ nextRun.start = 1
  /\ call.op = "next_session"

(* ------------------- properties of the controller --------------------- *)
WheelDownStep == WheelDropped \/ WheelAccepted

\* C1: a volume-up key-down handled less than the cooldown window after a
\* volume-up key-down that was accepted is dropped: it leaves the selection,
\* every session volume and mute flag, and the master level unchanged, so at
\* most one of the two changes the state.
SecondUpAfterAcceptedDropped ==
  [][(/\ WheelDownStep
      /\ ev'.name = "volume up"
      /\ keylog.up_age < EventCooldown
      /\ keylog.up_acc)
     => (/\ ev'.branch \in {"ignore", "guard", "cooldown"}
         /\ UNCHANGED <<ctl, master, masterMute, sessions, selected_index>>)]_vars

\* A volume-up that would have raised a session's volume has just been dropped
\* by the cooldown, less than the cooldown window after an accepted volume-up.
SecondUpDropped ==
  /\ keylog.up_chained
  /\ ev.name = "volume up"
  /\ ev.branch = "cooldown"
  /\ mode = "volume"
  /\ selected_index < Len(sessions)
  /\ sessions[selected_index + 1].volume < MaxPercent

\* C1 as stated: of two volume-up key-downs handled less than the cooldown
\* window apart, the second leaves the selection, the volumes, the mute flags
\* and the master level unchanged, whatever became of the first.
SecondUpChangesNothing ==
  [][(/\ WheelDownStep
      /\ ev'.name = "volume up"
      /\ keylog.up_age < EventCooldown)
     => UNCHANGED <<ctl, master, masterMute, sessions, selected_index>>]_vars

\* C2: the second of two consecutive short presses of the mute key brings the
\* mode back to what it was before the first, however soon it follows, also
\* inside the guard window the first one opened.
TwoShortPressesRestoreMode ==
  [][(/\ MuteUp
      /\ ev'.branch = "short"
      /\ keylog.prev_mode # "none")
     => mode' = keylog.prev_mode]_vars

\* A second short press has just ended inside the guard window of the first.
SecondPressInsideGuard ==
  /\ ev.branch = "short"
  /\ keylog.paired
  /\ keylog.in_guard
  /\ keylog.prev_mode = "select"
  /\ mode = "volume"

\* C4: after an accepted wheel key-down whose master snapshot could be read,
\* if the master level read after the action differs from the snapshot, the
\* handler has set the master level back to the snapshot.
RestoresMasterSnapshot ==
  (/\ ev.type = "down"
   /\ ev.name \in WheelKeys
   /\ ev.branch \in {"select", "session", "master"}
   /\ ev.postRead
   /\ ev.post # last_master_volume)
    => (ev.restored = last_master_volume /\ master = last_master_volume)

\* A volume-down on a session during which the OS lowered the master level,
\* which the handler has put back.
MasterDriftUndone ==
  /\ ev.name = "volume down"
  /\ ev.branch = "session"
  /\ ev.postRead
  /\ ev.post < last_master_volume
  /\ ev.restored = last_master_volume
  /\ master = last_master_volume

\* C5: with no session in direct mode, the master level after an accepted
\* wheel key-down is the level before it moved by the step and clamped (here
\* with a readable master level that nothing else touched meanwhile).
MasterNudgeStays ==
  (/\ ev.branch = "master"
   /\ ev.postRead
   /\ ev.post = ToLevel(Clamp(ToPercent(last_master_volume)
                              + (IF ev.name = "volume up" THEN Step ELSE 0 - Step))))
    => master = ev.post

\* C9: a long press with a session selected flips that session's isMuted,
\* sets the mute of all its controls accordingly, and leaves its volume, the
\* other sessions, the other controls and selected_index unchanged.
LongPressFlipsSelectedOnly ==
  [][(/\ MuteUp
      /\ mute_held # None
      /\ mute_held >= HoldTicks
      /\ selected_index < Len(sessions))
     => LET p == selected_index + 1
            ks == Range(sessions[p].controls)
        IN /\ Len(sessions') = Len(sessions)
           /\ sessions'[p].isMuted = ~sessions[p].isMuted
           /\ sessions'[p].volume = sessions[p].volume
           /\ sessions'[p].name = sessions[p].name
           /\ sessions'[p].controls = sessions[p].controls
           /\ \A i \in 1..Len(sessions) : i # p => sessions'[i] = sessions[i]
           /\ selected_index' = selected_index
           /\ ev'.mutedTo = ks
           /\ \A k \in CtlIds :
                IF k \in ks /\ Live(ctl, k)
                THEN ctl'[k] = [ctl[k] EXCEPT !.mute = ~sessions[p].isMuted]
                ELSE ctl'[k] = ctl[k]
           /\ UNCHANGED <<master, masterMute>>]_vars

\* The second of two applications has just been muted by a long press.
SecondSessionMuted ==
  /\ ev.branch = "long_session"
  /\ Len(sessions) = 2
  /\ selected_index = 1
  /\ sessions[2].isMuted
  /\ ~sessions[1].isMuted
  /\ ctl[2].mute
  /\ ~ctl[1].mute

\* C10: at a mute key-up after a key-down: held for the threshold or longer,
\* the selected session's mute is toggled, or the master mute when there is no
\* session (unless the endpoint call raises), and mode, guard window and
\* ignore counter stay; held for less, the mode toggles and no mute flag
\* changes; either way the time of the key-down is cleared.
MuteUpDecidesByHold ==
  [][(MuteUp /\ mute_held # None)
     => /\ mute_held' = None
        /\ IF mute_held >= HoldTicks
           THEN /\ mode' = mode
                /\ guard_left' = guard_left
                /\ ignore_deltas_count' = ignore_deltas_count
                /\ IF sessions # <<>>
                   THEN /\ selected_index < Len(sessions)
                        /\ sessions'[selected_index + 1].isMuted
                             = ~sessions[selected_index + 1].isMuted
                        /\ masterMute' = masterMute
                   ELSE /\ ev'.branch = "long_master"
                        /\ masterMute' = IF ev'.toggled THEN ~masterMute
                                         ELSE masterMute
                        /\ sessions' = sessions
           ELSE /\ mode' # mode
                /\ mode' \in {"volume", "select"}
                /\ UNCHANGED <<ctl, masterMute, sessions>>]_vars

\* A press released exactly at the threshold has just muted the session.
LongPressAtThreshold ==
  /\ ev.branch = "long_session"
  /\ ev.held = HoldTicks
  /\ mute_held = None
  /\ selected_index < Len(sessions)
  /\ sessions[selected_index + 1].isMuted

\* C3: the hook thread never reads or writes the session list or
\* selected_index while a refresh is between self.sessions = [] and the end
\* of its clamp of selected_index.
HookNeverInsideRebuild ==
  [][HookDirectoryStep => rpc \notin {"append", "clamp"}]_vars

\* A key-down of one of the three multimedia keys.
MediaDownStep == WheelDropped \/ WheelAccepted \/ MuteDown

\* C11: a wheel key-down (volume up or volume down) that arrives while the
\* ignore counter is positive decrements it by exactly one, is suppressed and
\* changes neither mode, selection, session volumes and mute flags, master,
\* the time of the mute key-down nor the guard window.
IgnoredWheelDrainsOne ==
  [][(WheelDownStep /\ ignore_deltas_count > 0)
     => (/\ ignore_deltas_count' = ignore_deltas_count - 1
         /\ ev'.branch = "ignore"
         /\ ~ev'.ret
         /\ UNCHANGED <<mode, selected_index, sessions, ctl, master, masterMute,
                        mute_held, guard_left, since_delta>>)]_vars

\* The last of the three ignored wheel key-downs after a mode toggle has just
\* been dropped, while the mute key is held down.
LastIgnoredWheelDropped ==
  /\ ev.branch = "ignore"
  /\ ev.name = "volume down"
  /\ ignore_deltas_count = 0
  /\ mute_held # None
  /\ mode = "select"

\* C11 as stated: a key-down of any of the three multimedia keys that arrives
\* while the ignore counter is positive decrements it by one and leaves the
\* time of the mute key-down as it was.
IgnoredMediaKeyDrainsOne ==
  [][(MediaDownStep /\ ignore_deltas_count > 0)
     => (/\ ignore_deltas_count' = ignore_deltas_count - 1
         /\ UNCHANGED <<mode, selected_index, sessions, ctl, mute_held>>)]_vars

\* C12: with the ignore counter at 0, a wheel key-down (volume up or volume
\* down) that arrives inside the cooldown window or inside the guard window
\* is suppressed and changes neither mode, selection, session volumes and mute
\* flags, master, the time of the mute key-down nor the debounce fields.
WheelInsideWindowDropped ==
  [][(/\ WheelDownStep
      /\ ignore_deltas_count = 0
      /\ (guard_left > 0 \/ since_delta < EventCooldown))
     => (/\ ev'.branch \in {"guard", "cooldown"}
         /\ ~ev'.ret
         /\ UNCHANGED <<mode, selected_index, sessions, ctl, master, masterMute,
                        mute_held, guard_left, since_delta,
                        ignore_deltas_count>>)]_vars

\* A volume-up has just been dropped by the guard window alone: the ignore
\* counter had been drained and no wheel event was accepted recently.
WheelDroppedByGuardOnly ==
  /\ ev.branch = "guard"
  /\ ev.name = "volume up"
  /\ ignore_deltas_count = 0
  /\ guard_left > 0
  /\ since_delta = EventCooldown
  /\ sessions # <<>>

\* C12 as stated: with the ignore counter at 0, a key-down of any of the
\* three multimedia keys inside the cooldown or guard window changes neither
\* mode, selection, volumes, mute flags nor the time of the mute key-down.
MediaKeyInsideWindowDropped ==
  [][(/\ MediaDownStep
      /\ ignore_deltas_count = 0
      /\ (guard_left > 0 \/ since_delta < EventCooldown))
     => UNCHANGED <<mode, selected_index, sessions, ctl, mute_held>>]_vars

\* C13: a volume-mute key-up with no key-down recorded acts as a short press:
\* the mode flips, the guard window is opened, the ignore counter is set and
\* the time of the last delta is reset as for any toggle, the event is passed
\* on, and no session, control or master state changes.
OrphanKeyUpToggles ==
  [][(MuteUp /\ mute_held = None)
     => (/\ mode' # mode
         /\ mode' \in {"volume", "select"}
         /\ guard_left' = GuardWindow
         /\ ignore_deltas_count' = IgnoreCount
         /\ since_delta' = EventCooldown
         /\ mute_held' = None
         /\ ev'.branch = "orphan"
         /\ ev'.ret
         /\ UNCHANGED <<ctl, master, masterMute, sessions, selected_index>>)]_vars

\* A key-up without key-down has just switched a controller with a session
\* back from select to direct mode.
OrphanKeyUpToggled ==
  /\ ev.branch = "orphan"
  /\ mode = "volume"
  /\ guard_left = GuardWindow
  /\ ignore_deltas_count = IgnoreCount
  /\ sessions # <<>>

\* C14: a volume-mute key-down records the time of the press (so that, when
\* the handler returns, the key has been held for as long as the handler
\* took), is suppressed, and changes neither mode, selected_index, any
\* session or control, the master, the ignore counter nor the end of the
\* guard window.
MuteDownOnlyRecordsPress ==
  [][MuteDown
     => LET took == IF last_master_volume' = None THEN 0 ELSE RestoreDelay
        IN /\ mute_held' = took
           /\ ~ev'.ret
           /\ guard_left' = (IF guard_left > took THEN guard_left - took ELSE 0)
           /\ UNCHANGED <<mode, selected_index, sessions, ctl, master, masterMute,
                          ignore_deltas_count>>]_vars

\* A mute key-down inside the guard window, with the ignore counter still
\* full, has just recorded its press time.
MuteDownInsideGuard ==
  /\ ev.branch = "mutedown"
  /\ mute_held = RestoreDelay
  /\ guard_left > 0
  /\ ignore_deltas_count = IgnoreCount
  /\ sessions # <<>>

\* C15: every key event that changes the mode, the selection, a session's
\* volume or a mute flag (of a session or of the master) calls ui_callback,
\* the request to show the overlay.
ChangingEventShowsOverlay ==
  [][((MediaDownStep \/ MuteUp)
      /\ (\/ mode' # mode
          \/ selected_index' # selected_index
          \/ sessions' # sessions
          \/ masterMute' # masterMute))
     => ev'.ui]_vars

\* C16: in every reachable state the navigationMode field of the display
\* state returned by get_state() is true exactly when the controller is in
\* the mode in which the wheel navigates ("select").
PublishedModeAgrees ==
  get_state(sessions, selected_index, navigation_mode).navigationMode
    = (mode = "select")

\* C17: after every refresh that replaced the list, no two entries have the
\* same name; an entry's controls are the volume controls of the reported
\* native sessions of its name, each exactly once; and there are as many
\* entries as there are distinct names among the reported native sessions.
RefreshGroupsByName ==
  [][(DirRefresh /\ ~call'.raised)
     => LET reported == {k \in CtlIds : ctl[k].st = "live"}
            names == {ctl[k].name : k \in reported}
            n == Len(sessions')
        IN /\ n = Cardinality(names)
           /\ \A i, j \in 1..n : sessions'[i].name = sessions'[j].name => i = j
           /\ \A i \in 1..n :
                LET ks == sessions'[i].controls
                IN /\ {ks[x] : x \in 1..Len(ks)}
                        = {k \in reported : ctl[k].name = sessions'[i].name}
                   /\ \A x, y \in 1..Len(ks) : ks[x] = ks[y] => x = y]_vars

\* A refresh has just merged two native sessions of one name into one entry.
RefreshMergedTwo ==
  /\ call.op = "update_sessions"
  /\ ~call.raised
  /\ Len(sessions) = 1
  /\ Len(sessions[1].controls) = 2
  /\ \A k \in CtlIds : ctl[k].st = "live" /\ ctl[k].name = sessions[1].name

\* C18: set_volume(index, v) with the index in range returns True, makes v
\* the cached volume of that session, and sets every control of the session
\* that accepts the call to v / 100; a control that raises is left alone and
\* does not keep the others from being set.  Nothing else changes.
SetVolumeReachesEveryControl ==
  [][(DirSetVolume /\ 0 <= call'.index /\ call'.index < Len(sessions))
     => LET i == call'.index + 1
            ks == {sessions[i].controls[x] : x \in 1..Len(sessions[i].controls)}
        IN /\ call'.ret
           /\ sessions' = [sessions EXCEPT ![i].volume = call'.volume]
           /\ \A k \in CtlIds :
                IF k \in ks /\ ctl[k].st = "live"
                THEN ctl'[k] = [ctl[k] EXCEPT !.level = ToLevel(call'.volume)]
                ELSE ctl'[k] = ctl[k]
           /\ UNCHANGED <<selected_index, navigation_mode, master, masterMute>>]_vars

\* set_volume(index, 0) has just been applied to a session of two controls of
\* which one raises: the other one is at 0, the cached volume is 0.
SetVolumePastRaisingControl ==
  /\ call.op = "set_volume"
  /\ call.ret
  /\ call.volume = 0
  /\ call.index < Len(sessions)
  /\ sessions[call.index + 1].volume = 0
  /\ Len(sessions[call.index + 1].controls) = 2
  /\ \E k, j \in call.volset :
       /\ ctl[k].st = "closed"
       /\ ctl[j].st = "live"
       /\ ctl[j].level = 0

\* C19: set_volume(index, v) with index < 0 or index >= the number of sessions
\* returns False and changes no control, no cached volume and nothing else of
\* the directory.
SetVolumeRejectsOutOfRange ==
  [][(DirSetVolume /\ (call'.index < 0 \/ call'.index >= Len(sessions)))
     => /\ ~call'.ret
        /\ UNCHANGED <<ctl, sessions, selected_index, navigation_mode,
                       master, masterMute>>]_vars

\* set_volume(-1, v) has just been refused on a directory that has sessions
\* whose cached volume and control level differ from v.
SetVolumeRefusedBelowZero ==
  /\ call.op = "set_volume"
  /\ ~call.ret
  /\ call.index = 0 - 1
  /\ sessions # <<>>
  /\ \A i \in 1..Len(sessions) :
       /\ sessions[i].volume # call.volume
       /\ \A x \in 1..Len(sessions[i].controls) :
            /\ ctl[sessions[i].controls[x]].st = "live"
            /\ ctl[sessions[i].controls[x]].level # ToLevel(call.volume)

\* C20: change_volume(delta) on an empty directory changes nothing and
\* returns the value of get_state().
ChangeOnEmptyReturnsState ==
  [][(DirChangeVolume /\ sessions = <<>>)
     => /\ call'.returns = "get_state"
        /\ UNCHANGED <<ctl, sessions, selected_index, navigation_mode,
                       master, masterMute>>]_vars

\* C21: after every refresh, next_session, prev_session or change_volume run
\* to completion, 0 <= selected_index < number of sessions whenever the
\* directory is non-empty; next_session and prev_session on an empty
\* directory change nothing.
SelectionStaysInRange ==
  [][(DirRefresh \/ DirNext \/ DirPrev \/ DirChangeVolume)
     => /\ sessions' # <<>>
           => (0 <= selected_index' /\ selected_index' < Len(sessions'))
        /\ ((DirNext \/ DirPrev) /\ sessions = <<>>)
           => UNCHANGED <<ctl, sessions, selected_index, navigation_mode,
                          master, masterMute>>]_vars

\* prev_session has just gone from the first session to the last of two, and
\* one of the two applications has stopped since: the next refresh must clamp.
PrevWrappedBeforeShrink ==
  /\ call.op = "prev_session"
  /\ Len(sessions) = 2
  /\ selected_index = 1
  /\ \E k \in CtlIds : ctl[k].st = "closed"

\* C22: an accepted wheel key-down in select mode changes, of the directory
\* and the controls, only selected_index (up: the next session, down: the
\* previous one); in volume mode with a session selected it changes only that
\* session's cached volume and mute flag and that session's controls, never
\* selected_index.
WheelActsByMode ==
  [][WheelAccepted
     => LET n == Len(sessions)
            p == selected_index + 1
        IN /\ mode' = mode
           /\ masterMute' = masterMute
           /\ mode = "select"
              => /\ sessions' = sessions
                 /\ ctl' = ctl
                 /\ selected_index' =
                      (IF n = 0 THEN selected_index
                       ELSE IF ev'.name = "volume up" THEN (selected_index + 1) % n
                       ELSE (selected_index - 1) % n)
           /\ (mode = "volume" /\ 0 <= selected_index /\ selected_index < n)
              => /\ selected_index' = selected_index
                 /\ Len(sessions') = n
                 /\ \A i \in 1..n :
                      /\ sessions'[i].name = sessions[i].name
                      /\ sessions'[i].controls = sessions[i].controls
                      /\ i # p => sessions'[i] = sessions[i]
                 /\ \A k \in CtlIds :
                      (\A x \in 1..Len(sessions[p].controls) :
                         sessions[p].controls[x] # k)
                      => ctl'[k] = ctl[k]]_vars

\* A wheel key-down accepted in select mode has just moved the selection to
\* the second of two sessions, both still at the volume they started with.
WheelMovedSelection ==
  /\ ev.branch = "select"
  /\ ev.name = "volume up"
  /\ mode = "select"
  /\ Len(sessions) = 2
  /\ selected_index = 1
  /\ \A i \in 1..2 : sessions[i].volume = MaxPercent /\ ~sessions[i].isMuted

\* C23: a key event whose key is none of volume up, volume down and volume
\* mute is passed through (the handler returns True), requests no overlay and
\* changes nothing of the controller, the directory or the OS; every key-down
\* of one of the three keys is suppressed (the handler returns False), whether
\* the debounce accepted it or not.
OtherKeysPassMediaKeysSuppressed ==
  [][(KeyPass \/ MediaDownStep)
     => /\ ev'.name \notin {"volume up", "volume down", "volume mute"}
           => /\ ev'.ret
              /\ ~ev'.ui
              /\ UNCHANGED <<osVars, dirVars, keyVars>>
        /\ (ev'.type = "down"
            /\ ev'.name \in {"volume up", "volume down", "volume mute"})
           => ~ev'.ret]_vars

\* An ordinary key has just gone down inside the guard window that followed
\* a mode toggle, with the ignore counter still full.
OtherKeyInsideGuard ==
  /\ ev.branch = "pass"
  /\ ev.type = "down"
  /\ ev.name = "a"
  /\ ev.ret
  /\ mode = "select"
  /\ guard_left > 0
  /\ ignore_deltas_count = IgnoreCount

\* C24: while the controller is running, a pass of the refresh loop that
\* failed is followed by another attempt: the loop enters its try block
\* again, unless the controller is stopped meanwhile.
FailedPassRetried ==
  (running /\ call.op = "update_sessions" /\ call.raised)
    ~> (refresh_thread = "update" \/ ~running)

\* The loop is in its try block again, the pass before having failed, with
\* the directory out of date.
RetryAfterFailedPass ==
  /\ running
  /\ refresh_thread = "update"
  /\ call.op = "update_sessions"
  /\ call.raised
  /\ sessions = <<>>
  /\ \E k \in CtlIds : ctl[k].st = "live"

\* C25: a pass of the refresh loop in which update_sessions raises leaves the
\* session list, selected_index and navigation_mode exactly as they were.
FailedRefreshKeepsDirectory ==
  [][(LoopUpdate /\ call'.raised)
     => UNCHANGED <<sessions, selected_index, navigation_mode>>]_vars

\* A pass has just failed with two sessions in the directory, one of them of
\* an application that has stopped since the pass that listed it.
FailedPassKeptStaleList ==
  /\ call.op = "update_sessions"
  /\ call.raised
  /\ refresh_thread = "sleep"
  /\ Len(sessions) = 2
  /\ \E i \in 1..2 : ctl[sessions[i].controls[1]].st = "closed"

\* C26: stop() raises nothing and leaves running false and the key hook
\* unregistered, whether the controller runs, has been stopped before or was
\* never started; on a controller that is already stopped or was never
\* started it changes nothing.
StopIsIdempotent ==
  [][Stop
     => /\ ~call'.raised
        /\ ~running'
        /\ ~hooked'
        /\ (~running /\ ~hooked)
           => UNCHANGED <<running, hooked, refresh_thread, osVars, dirVars,
                          mode, mute_held, last_master_volume, guard_left,
                          since_delta, ignore_deltas_count>>]_vars

\* stop() has just been called on a controller that had been started and
\* stopped already, its refresh loop ended.
StoppedTwice ==
  /\ call.op = "stop"
  /\ call.again
  /\ ~call.raised
  /\ refresh_thread = "ended"
  /\ ~running
  /\ ~hooked

\* C27: the value get_state() returns lists the sessions in directory order
\* with their cached name, volume and mute flag, has selectedIndex equal to
\* selected_index, and marks isSelected for exactly the entry at
\* selected_index: one entry when the directory is non-empty, none when it is
\* empty.  Stated where the hook thread's change_volume returns
\* self.get_state(), right after its set_volume.
GetStateMarksOneSelected ==
  [][HookSetVolume
     => LET st == get_state(sessions', selected_index', navigation_mode')
            n == Len(sessions')
            marked == {i \in 1..Len(st.sessions) : st.sessions[i].isSelected}
        IN /\ Len(st.sessions) = n
           /\ st.selectedIndex = selected_index'
           /\ \A i \in 1..n :
                /\ st.sessions[i].name = sessions'[i].name
                /\ st.sessions[i].volume = sessions'[i].volume
                /\ st.sessions[i].isMuted = sessions'[i].isMuted
                /\ st.sessions[i].isSelected <=> (i - 1 = selected_index')
           /\ n > 0 => Cardinality(marked) = 1
           /\ n = 0 => marked = {}]_vars

\* C28: after a refresh that groups k >= 1 controls, whose volumes as integer
\* percents are v_1..v_k, into one entry, the entry's volume is the mean of
\* v_1..v_k rounded to the nearest integer (a tie rounded up, or to the even
\* neighbour).
RefreshVolumeIsRoundedMean ==
  [][(DirRefresh /\ ~call'.raised)
     => \A i \in 1..Len(sessions') :
          LET ks == sessions'[i].controls
              k == Len(ks)
              sum == SumPercents(ctl, ks)
              q == sum \div k
              r == sum % k
              nearest == IF 2 * r < k THEN {q}
                         ELSE IF 2 * r > k THEN {q + 1}
                         ELSE {q + 1, IF q % 2 = 0 THEN q ELSE q + 1}
          IN sessions'[i].volume \in nearest]_vars

\* C29: immediately after every refresh that replaced the list, an entry's
\* isMuted is true exactly when at least one of the controls grouped under it
\* is muted.
RefreshMuteIsAnyControl ==
  [][(DirRefresh /\ ~call'.raised)
     => \A i \in 1..Len(sessions') :
          sessions'[i].isMuted
            <=> (\E x \in 1..Len(sessions'[i].controls) :
                   ctl[sessions'[i].controls[x]].mute)]_vars

\* A refresh has just grouped a muted control and, after it, one that is not
\* muted: the entry is muted.
RefreshGroupedMutedFirst ==
  /\ call.op = "update_sessions"
  /\ ~call.raised
  /\ Len(sessions) = 1
  /\ sessions[1].controls = <<1, 2>>
  /\ ctl[1].mute
  /\ ~ctl[2].mute
  /\ sessions[1].isMuted

\* C30: across any sequence of refreshes, each of the two resolvers is called
\* at most once for each executable, and a name or icon once cached for an
\* executable (a failed lookup included) is never changed or removed.
LookupsOncePerPath ==
  [][\A p \in Paths :
       /\ lookups'.name[p] <= 1
       /\ lookups'.icon[p] <= 1
       /\ name_cache[p] # "absent" => name_cache'[p] = name_cache[p]
       /\ icon_cache[p] # "absent" => icon_cache'[p] = icon_cache[p]]_vars

\* A refresh has just listed two native sessions of one executable whose
\* name and icon lookups both failed: one call of each resolver, and both
\* sessions under the cached name.
FailedLookupsCachedOnce ==
  /\ call.op = "update_sessions"
  /\ ~call.raised
  /\ name_cache["Example"] = "Unknown"
  /\ icon_cache["Example"] = "none"
  /\ lookups.name["Example"] = 1
  /\ lookups.icon["Example"] = 1
  /\ Len(sessions) = 1
  /\ sessions[1].name = "Unknown"
  /\ Len(sessions[1].controls) = 2

\* C31: a mode toggle sets the ignore counter to 3 (whatever it was) and
\* opens the guard window; the counter stays within 0..3 and changes only by
\* a toggle or by a wheel key-down that takes one off; a wheel key-down that
\* finds the counter positive, however long after the toggle, or the guard
\* window open, is dropped: suppressed, with selection, sessions, controls,
\* master and mode unchanged.
ToggleArmsThreeDrops ==
  [][/\ ignore_deltas_count' >= 0
     /\ ignore_deltas_count' <= 3
     /\ (MuteUp /\ mode' # mode)
        => (ignore_deltas_count' = 3 /\ guard_left' = GuardWindow)
     /\ ignore_deltas_count' # ignore_deltas_count
        => \/ MuteUp /\ mode' # mode
           \/ WheelDownStep /\ ignore_deltas_count' = ignore_deltas_count - 1
     /\ (WheelDownStep /\ (ignore_deltas_count > 0 \/ guard_left > 0))
        => /\ ~ev'.ret
           /\ ev'.branch \in {"ignore", "guard"}
           /\ UNCHANGED <<selected_index, sessions, ctl, master, masterMute,
                          mode>>]_vars

\* The first of the three wheel key-downs after a toggle has just been
\* dropped, although the guard window had long expired.
FirstIgnoredAfterGuardExpired ==
  /\ ev.branch = "ignore"
  /\ ignore_deltas_count = 2
  /\ guard_left = 0
  /\ mode = "select"
  /\ sessions # <<>>

\* C32: every accepted wheel key-down in select mode rebuilds the session
\* list from the OS as part of handling the event: afterwards the list is
\* what a refresh over the native sessions gives, and selected_index is
\* within it.
NavigationRebuildsList ==
  [][(WheelAccepted /\ mode = "select")
     => /\ sessions' = update_sessions(sessions, selected_index, ctl, TRUE).sessions
        /\ sessions' # <<>> => selected_index' < Len(sessions')]_vars

\* C33: a refresh that rebuilds the list leaves selected_index as it was
\* whenever it is below the new session count, whichever application is now
\* at that position, and otherwise sets it to the last index of the new list
\* (0 when the new list is empty).
RefreshKeepsIndexNumber ==
  [][(DirRefresh /\ ~call'.raised)
     => selected_index' =
          IF selected_index < Len(sessions') THEN selected_index
          ELSE IF sessions' = <<>> THEN 0
          ELSE Len(sessions') - 1]_vars

\* A refresh has kept the index and another application is now selected.
RefreshKeptIndexOtherApp ==
  /\ call.op = "update_sessions"
  /\ ~call.raised
  /\ call.index = selected_index
  /\ call.name # ""
  /\ SelectedName(sessions, selected_index) \notin {"", call.name}

\* C34: a volume-mute key-down that arrives while the key is already down
\* (keyboard auto-repeat) does not move the recorded time of the press: the
\* time held so far is not shortened by it, so a key held for the hold
\* threshold is a long press at its key-up.
RepeatKeepsFirstPressTime ==
  [][(MuteDown /\ mute_held # None) => mute_held' >= mute_held]_vars

\* C35: under every interleaving of the refresh thread with the key handler,
\* change_volume finds an element at self.sessions[self.selected_index] when
\* it evaluates it, so no accepted wheel key-down ends in an error that
\* leaves the handler before the master-volume restoration.
HandlerIndexesInBounds ==
  [][/\ HookChgIndex => selected_index < Len(sessions)
     /\ hpc' # "raised"]_vars

\* C36: after any sequence of start() and stop() calls at most one refresh
\* loop is alive: no loop of an earlier start() is left running beside the
\* thread of the latest one, and no such loop passes its while test again and
\* goes on refreshing.
AtMostOneRefreshLoop ==
  [][/\ (StillRuns(refresh_thread') /\ running') => orphans' = <<>>
     /\ OrphanWhile => Len(orphans') < Len(orphans)]_vars

\* C37: once stop() has been called and start() is not called again, the
\* refresh loop eventually returns; a refresh in flight completes, and after
\* the loop has tested running and found it False it begins no refresh and
\* stays ended.
StoppedLoopExits ==
  /\ (~running /\ StillRuns(refresh_thread)) ~> (refresh_thread = "ended")
  /\ [][/\ (~running /\ refresh_thread = "while")
           => refresh_thread' \in {"while", "ended"}
        /\ refresh_thread = "ended"
           => (refresh_thread' = "ended" /\ ~LoopUpdate)
        /\ (~running /\ refresh_thread = "update" /\ refresh_thread' # "update")
           => (LoopUpdate /\ refresh_thread' = "sleep")]_vars

\* The loop has returned after a stop() that found it inside a refresh: the
\* refresh completed after the stop.
LoopEndedAfterRefreshInFlight ==
  /\ ~running
  /\ refresh_thread = "ended"
  /\ call.op = "update_sessions"

\* C38: the cooldown is measured from the last accepted wheel key-down: a
\* wheel key-down dropped by the ignore counter, the guard window or the
\* cooldown leaves last_delta_at where it was, and with the counter at 0 and
\* the guard window over a wheel key-down is accepted exactly when at least
\* the cooldown has passed since the last accepted one.
CooldownCountsFromLastAccepted ==
  [][/\ WheelDropped
        => (since_delta' = since_delta /\ guard_left' = guard_left)
     /\ (WheelDownStep /\ ignore_deltas_count = 0 /\ guard_left = 0)
        => IF since_delta >= EventCooldown
           THEN ev'.branch \notin {"ignore", "guard", "cooldown"}
           ELSE ev'.branch = "cooldown"]_vars

\* A wheel key-down has just been dropped by the cooldown one tick before the
\* cooldown of the last accepted one ends.
DroppedOneTickBeforeCooldownEnds ==
  /\ ev.branch = "cooldown"
  /\ since_delta = EventCooldown - 1
  /\ ignore_deltas_count = 0
  /\ guard_left = 0

\* C39: after a mode toggle that is followed by no further toggle, with wheel
\* key-downs arriving again and again, a wheel key-down is eventually
\* accepted, the ignore counter drained to 0 and the guard window over: wheel
\* input is not blocked forever.
WheelAcceptedAfterToggle ==
  \/ []<><<BurstMuteUp>>_vars
  \/ (running /\ ignore_deltas_count = IgnoreCount /\ guard_left = GuardWindow)
       ~> /\ ev.type = "down"
          /\ ev.name \in WheelKeys
          /\ ev.branch \notin {"ignore", "guard", "cooldown"}
          /\ ignore_deltas_count = 0
          /\ guard_left = 0

\* The third wheel key-down after a toggle has been dropped by the counter
\* with the guard window still open.
ThirdDropInsideGuard ==
  /\ ev.branch = "ignore"
  /\ ignore_deltas_count = 0
  /\ guard_left > 0
  /\ mode = "select"

\* C40: change_volume(delta) modifies only the session at selected_index:
\* every other session's cached entry and every native control that is not
\* one of the selected session's stay as they were; so do the length and the
\* order of the list, each session's name and controls, selected_index, the
\* modes and the master.
ChangeVolumeTouchesSelectedOnly ==
  [][DirChangeVolume
     => /\ Len(sessions') = Len(sessions)
        /\ \A i \in 1..Len(sessions) :
             /\ sessions'[i].name = sessions[i].name
             /\ sessions'[i].controls = sessions[i].controls
             /\ i # selected_index + 1 => sessions'[i] = sessions[i]
        /\ \A k \in CtlIds :
             ctl'[k] # ctl[k]
               => /\ selected_index < Len(sessions)
                  /\ k \in Range(sessions[selected_index + 1].controls)
        /\ UNCHANGED <<selected_index, navigation_mode, mode, master,
                       masterMute>>]_vars

\* change_volume has just unmuted and set the selected one of two sessions
\* while the other one is muted.
ChangedBesideMutedSession ==
  /\ call.op = "change_volume"
  /\ call.unmuted # {}
  /\ call.volset # {}
  /\ Len(sessions) = 2
  /\ \E i \in 1..2 : i # selected_index + 1 /\ sessions[i].isMuted
  /\ \E k \in CtlIds : ctl[k].st = "live" /\ ctl[k].mute

====
